---- MODULE Spec2Model ----
(***************************************************************************)
(* njfs (src/index.js, second module of the file, lines 254-469): the      *)
(* copy / move engine and the directory lister, run against a model of the *)
(* filesystem.                                                             *)
(*                                                                         *)
(* A path is a sequence of names, a name is a sequence of characters, the  *)
(* empty path is the working directory.  Every asynchronous function call  *)
(* is a task; one action of the model is the completion of one awaited     *)
(* filesystem request together with the synchronous continuation that runs *)
(* up to the next await, promise settlement included.                      *)
(***************************************************************************)
EXTENDS Integers, Sequences, FiniteSets, TLC

VARIABLES
  fs,       \* path -> node, its domain is the set of paths that exist
  inodes,   \* inode number -> file content (a sequence of bytes)
  fs0,      \* the filesystem when the call was made
  inodes0,  \* the file contents when the call was made
  tasks,    \* the async function invocations, in creation order
  xdev,     \* source and destination are on different devices
  renames,  \* number of fs.rename requests issued
  opts,     \* the options of a list call
  entries   \* the entries array of a list call

vars == <<fs, inodes, fs0, inodes0, tasks, xdev, renames, opts, entries>>

---------------------------------------------------------------------------
(* Bounds *)

\* longest path, in names, the filesystem accepts (ENAMETOOLONG beyond)
PathMax == 4
\* bytes a read stream delivers per 'data' event
ChunkLen == 2
\* longest string handed to unix, in characters
MaxLen == 3

---------------------------------------------------------------------------
(* Names and paths: path.extname, path.basename, path.dirname, path.join *)

DOT == "."

nF == <<"f", DOT, "t">>
nG == <<"g", DOT, "T">>
nL == <<"L">>
nA == <<"a">>
nD == <<"d">>
nO == <<"o">>
nN == <<"n">>
nQ == <<"q", DOT, "x">>
nM == <<"m">>

Max(S) == CHOOSE x \in S : \A y \in S : y <= x

LastDot(name) == Max({0} \cup {i \in 1..Len(name) : name[i] = DOT})

\* path.extname of one name: from the last dot to the end; empty when there is
\* no dot or when the only dot is the first character
ExtOfName(name) ==
  IF LastDot(name) <= 1 THEN <<>>
  ELSE SubSeq(name, LastDot(name), Len(name))

BaseName(p) == IF p = <<>> THEN <<>> ELSE p[Len(p)]
DirName(p) == IF p = <<>> THEN <<>> ELSE SubSeq(p, 1, Len(p) - 1)
ExtName(p) == ExtOfName(BaseName(p))
Join(p, name) == Append(p, name)
JoinPath(p, q) == p \o q

IsPrefix(p, q) == Len(p) <= Len(q) /\ SubSeq(q, 1, Len(p)) = p
Prefixes(p) == {SubSeq(p, 1, i) : i \in 1..Len(p)}

---------------------------------------------------------------------------
(* The filesystem: what the fs/promises requests do *)

DirNode == [kind |-> "dir", ino |-> 0]
LinkNode == [kind |-> "link", ino |-> 0]
FileNode(i) == [kind |-> "file", ino |-> i]

\* the kind of the node a path names: "dir", "file", "link" (a dangling
\* symbolic link) or "missing"
KindAt(f, p) ==
  IF p = <<>> THEN "dir"
  ELSE IF p \in DOMAIN f THEN f[p].kind ELSE "missing"

\* a probe that never fails
StatAlwaysOk(f, p) == TRUE

\* fs.stat follows links: it fails on a missing path and on a dangling link
StatOk(f, p) == KindAt(f, p) \in {"dir", "file"}

\* fs.access, as fs.stat
AccessOk(f, p) == StatOk(f, p)

\* fs.readdir: the names in a directory, dangling links included
Children(f, p) == {q \in DOMAIN f : Len(q) = Len(p) + 1 /\ IsPrefix(p, q)}

\* fs.mkdir(p, {recursive: true})
MkdirpErr(f, p) ==
  IF Len(p) > PathMax THEN "ENAMETOOLONG"
  ELSE IF \E q \in Prefixes(p) : KindAt(f, q) \in {"file", "link"}
    THEN IF KindAt(f, p) \in {"file", "link"} THEN "EEXIST" ELSE "ENOTDIR"
  ELSE ""

Mkdirp(f, p) ==
  [q \in (DOMAIN f) \cup Prefixes(p) |-> IF q \in DOMAIN f THEN f[q] ELSE DirNode]

\* fs.rm(p, {recursive: true, force: true}): no error on a missing path
Rm(f, p) == [q \in {r \in DOMAIN f : ~IsPrefix(p, r)} |-> f[q]]

\* fs.rename(s, d)
RenameErr(f, s, d, x) ==
  IF KindAt(f, s) = "missing" THEN "ENOENT"
  ELSE IF KindAt(f, DirName(d)) # "dir" THEN "ENOENT"
  ELSE IF x THEN "EXDEV"
  ELSE IF s # d /\ IsPrefix(s, d) THEN "EINVAL"
  ELSE IF KindAt(f, s) = "dir" /\ KindAt(f, d) \in {"file", "link"} THEN "ENOTDIR"
  ELSE IF KindAt(f, s) # "dir" /\ KindAt(f, d) = "dir" THEN "EISDIR"
  ELSE IF KindAt(f, s) = "dir" /\ Children(f, d) # {} THEN "ENOTEMPTY"
  ELSE ""

Rename(f, s, d) ==
  IF s = d THEN f
  ELSE LET kept == {r \in DOMAIN f : ~IsPrefix(s, r) /\ ~IsPrefix(d, r)}
           moved == {r \in DOMAIN f : IsPrefix(s, r)}
           To(r) == d \o SubSeq(r, Len(s) + 1, Len(r))
       IN [q \in kept \cup {To(r) : r \in moved} |->
             IF q \in kept THEN f[q]
             ELSE f[CHOOSE r \in moved : To(r) = q]]

\* the content of the file a path names
Content(f, ind, p) == ind[f[p].ino]


\* createWriteStream(p) opening p with flags 'w'
OpenWriteErr(f, p) ==
  IF Len(p) > PathMax THEN "ENAMETOOLONG"
  ELSE IF KindAt(f, p) = "dir" THEN "EISDIR"
  ELSE IF KindAt(f, DirName(p)) # "dir" THEN "ENOENT"
  ELSE ""

\* createReadStream(p) opening p and reading it
OpenReadErr(f, p) ==
  IF KindAt(f, p) = "dir" THEN "EISDIR"
  ELSE IF KindAt(f, p) # "file" THEN "ENOENT"
  ELSE ""

FreshIno(ind) == CHOOSE i \in 1..(Cardinality(DOMAIN ind) + 1) : i \notin DOMAIN ind

\* a write of chunk at byte offset pos
WriteAt(data, pos, chunk) ==
  [i \in 1..Max({Len(data), pos + Len(chunk)}) |->
     IF i > pos /\ i <= pos + Len(chunk) THEN chunk[i - pos]
     ELSE IF i <= Len(data) THEN data[i] ELSE 0]

ReadAt(data, pos) ==
  SubSeq(data, pos + 1, IF pos + ChunkLen < Len(data) THEN pos + ChunkLen ELSE Len(data))

---------------------------------------------------------------------------
(* Tasks: the invocations of copy, move, list and of list's walk callback *)

NoPath == <<>>

NewTask(op, source, dest, par, pc) ==
  [op |-> op, pc |-> pc, source |-> source, dest |-> dest, par |-> par,
   isDir |-> FALSE, finalDest |-> NoPath,
   state |-> "pending", val |-> NoPath, err |-> "", renameErr |-> "",
   rs |-> "none", ws |-> "none", rsFd |-> 0, wsFd |-> 0,
   rpos |-> 0, wpos |-> 0, buf |-> <<>>]

ChildrenOf(ts, t) == {c \in DOMAIN ts : ts[c].par = t}

\* an inode stays while a path or an open stream refers to it
Referenced(f, ts) ==
  {f[p].ino : p \in {q \in DOMAIN f : f[q].kind = "file"}}
    \cup {ts[t].rsFd : t \in {u \in DOMAIN ts : ts[u].rs = "open"}}
    \cup {ts[t].wsFd : t \in {u \in DOMAIN ts : ts[u].ws = "open"}}

Gc(f, ts, ind) == [i \in (DOMAIN ind) \cap Referenced(f, ts) |-> ind[i]]

\* a fallback that goes on to remove the source however the copy ended
FallbackProceedsAnyway(st) == TRUE

\* lines 442-443: `await copy(...)` throws when the copy is rejected, so
\* remove(source) is reached only when the copy has resolved
FallbackProceeds(st) == st = "resolved"

\* a settlement that no awaiting promise takes notice of
SettleAlone(ts, t, st, val, err) ==
  [ts EXCEPT ![t].state = st, ![t].val = val, ![t].err = err, ![t].pc = "done"]

\* The settlement of a task's promise and of the promises that await it:
\* Promise.all in a directory copy (src/index.js:402) and in walk (:355)
\* rejects on the first rejection and resolves when every child has;
\* move's catch block (:442-444) goes on to remove(source) when copy resolves.
RECURSIVE Settle(_, _, _, _, _)
Settle(ts, t, st, val, err) ==
  LET ts1 == [ts EXCEPT ![t].state = st, ![t].val = val, ![t].err = err, ![t].pc = "done"]
      p == ts[t].par
  IN IF p = 0 THEN ts1
     ELSE IF ts1[p].state # "pending" THEN ts1
     ELSE IF ts1[p].pc = "await" THEN
       IF st = "rejected" THEN Settle(ts1, p, "rejected", NoPath, err)
       ELSE IF \A c \in ChildrenOf(ts1, p) : ts1[c].state = "resolved"
         THEN Settle(ts1, p, "resolved", ts1[p].dest, "")
       ELSE ts1
     ELSE IF ts1[p].pc = "fbcopy" THEN
       IF ~FallbackProceeds(st) THEN Settle(ts1, p, "rejected", NoPath, err)
       ELSE [ts1 EXCEPT ![p].pc = "fbremove"]
     ELSE ts1

Resolve(ts, t, val) == Settle(ts, t, "resolved", val, "")
Reject(ts, t, err) == Settle(ts, t, "rejected", NoPath, err)

\* a set of paths as a sequence, in a fixed order
RECURSIVE SeqOf(_)
SeqOf(S) ==
  IF S = {} THEN <<>>
  ELSE LET x == CHOOSE y \in S : TRUE IN <<x>> \o SeqOf(S \ {x})

\* the child copies a directory copy starts: items.map(item => copy(...))
SpawnCopies(ts, t, items) ==
  ts \o [i \in 1..Len(items) |->
           NewTask("copy", items[i],
                   Join(ts[t].dest, BaseName(items[i])), t, "stat")]


---------------------------------------------------------------------------
(* copy (src/index.js:390-421) *)

\* line 395: const destDir = path.extname(dest) ? path.dirname(dest) : dest
CopyDestDir(dest) == IF ExtName(dest) # <<>> THEN DirName(dest) ELSE dest

\* line 407: path.extname(dest) ? dest : path.join(dest, path.basename(source))
CopyFinalDest(source, dest) ==
  IF ExtName(dest) # <<>> THEN dest ELSE Join(dest, BaseName(source))

\* the stream event whose handler resolves the promise (line 419)
ResolveEvent == "finish"

\* one step: the new filesystem, file contents and tasks
Step(f, ind, ts) ==
  /\ fs' = f
  /\ tasks' = ts
  /\ inodes' = Gc(f, ts, ind)
  /\ UNCHANGED <<fs0, inodes0, xdev, opts, entries>>

Pending(t, op, pc) ==
  /\ tasks[t].op = op
  /\ tasks[t].pc = pc
  /\ tasks[t].state = "pending"

\* lines 391-396: statSafe(source) answers; mkdirp(destDir) is requested
CopyStat(t) ==
  /\ Pending(t, "copy", "stat")
  /\ UNCHANGED renames
  /\ IF ~StatOk(fs, tasks[t].source)
       THEN Step(fs, inodes, Reject(tasks, t, "Source not found"))
       ELSE Step(fs, inodes,
                 [tasks EXCEPT ![t].isDir = (KindAt(fs, tasks[t].source) = "dir"),
                               ![t].pc = "mkdirp1"])

\* line 396 answers; then line 400 (directory) or line 410 (file) is requested
CopyMkdirp(t) ==
  /\ Pending(t, "copy", "mkdirp1")
  /\ UNCHANGED renames
  /\ LET destDir == CopyDestDir(tasks[t].dest)
         err == MkdirpErr(fs, destDir)
     IN IF err # "" THEN Step(fs, inodes, Reject(tasks, t, err))
        ELSE IF tasks[t].isDir
          THEN Step(Mkdirp(fs, destDir), inodes, [tasks EXCEPT ![t].pc = "mkdirp2"])
        ELSE Step(Mkdirp(fs, destDir), inodes,
                  [tasks EXCEPT ![t].pc = "exists",
                                ![t].finalDest =
                                   CopyFinalDest(tasks[t].source, tasks[t].dest)])

\* a directory copy that does not create its destination
EnsureNothing(f, dest) == f

\* line 400: await mkdirp(dest), the destination itself and not its parent
EnsureDest(f, dest) == Mkdirp(f, dest)

\* line 400 answers; readdir(source) is requested
CopyMkdirpDest(t) ==
  /\ Pending(t, "copy", "mkdirp2")
  /\ UNCHANGED renames
  /\ LET err == MkdirpErr(fs, tasks[t].dest)
     IN IF err # "" THEN Step(fs, inodes, Reject(tasks, t, err))
        ELSE Step(EnsureDest(fs, tasks[t].dest), inodes, [tasks EXCEPT ![t].pc = "readdir"])

\* line 401 answers; line 402 starts one copy per item and awaits them all
CopyReaddir(t) ==
  /\ Pending(t, "copy", "readdir")
  /\ UNCHANGED renames
  /\ LET items == SeqOf(Children(fs, tasks[t].source))
     IN IF KindAt(fs, tasks[t].source) # "dir"
          THEN Step(fs, inodes, Reject(tasks, t, "ENOTDIR"))
        ELSE IF items = <<>>
          THEN Step(fs, inodes, Resolve(tasks, t, tasks[t].dest))
        ELSE Step(fs, inodes, SpawnCopies([tasks EXCEPT ![t].pc = "await"], t, items))

\* lines 413-416: both streams are created and begin to open
OpenStreams(ts, t) ==
  [ts EXCEPT ![t].pc = "stream", ![t].rs = "opening", ![t].ws = "opening"]

\* line 410: exists(finalDest) answers
CopyExists(t) ==
  /\ Pending(t, "copy", "exists")
  /\ UNCHANGED renames
  /\ IF AccessOk(fs, tasks[t].finalDest)
       THEN Step(fs, inodes, [tasks EXCEPT ![t].pc = "remove"])
       ELSE Step(fs, inodes, OpenStreams(tasks, t))

\* line 410: remove(finalDest) answers
CopyRemove(t) ==
  /\ Pending(t, "copy", "remove")
  /\ UNCHANGED renames
  /\ Step(Rm(fs, tasks[t].finalDest), inodes, OpenStreams(tasks, t))

RejectIfPending(ts, t, err) ==
  IF ts[t].state = "pending" THEN Reject(ts, t, err) ELSE ts

\* the read stream opens its file, or emits 'error' (line 417)
RsOpen(t) ==
  /\ tasks[t].rs = "opening"
  /\ UNCHANGED renames
  /\ LET err == OpenReadErr(fs, tasks[t].source)
     IN IF err # ""
          THEN Step(fs, inodes, RejectIfPending([tasks EXCEPT ![t].rs = "error"], t, err))
          ELSE Step(fs, inodes,
                    [tasks EXCEPT ![t].rs = "open", ![t].rsFd = fs[tasks[t].source].ino])

\* the write stream opens its file with flags 'w', or emits 'error' (line 418)
WsOpen(t) ==
  /\ tasks[t].ws = "opening"
  /\ UNCHANGED renames
  /\ LET d == tasks[t].finalDest
         err == OpenWriteErr(fs, d)
         new == FreshIno(inodes)
     IN IF err # ""
          THEN Step(fs, inodes, RejectIfPending([tasks EXCEPT ![t].ws = "error"], t, err))
        ELSE IF KindAt(fs, d) = "file"
          THEN Step(fs, [inodes EXCEPT ![fs[d].ino] = <<>>],
                    [tasks EXCEPT ![t].ws = "open", ![t].wsFd = fs[d].ino])
        ELSE Step([q \in (DOMAIN fs) \cup {d} |-> IF q = d THEN FileNode(new) ELSE fs[q]],
                  [i \in (DOMAIN inodes) \cup {new} |-> IF i = new THEN <<>> ELSE inodes[i]],
                  [tasks EXCEPT ![t].ws = "open", ![t].wsFd = new])

\* the read stream reads a chunk and pipes it (line 416), or reaches the end:
\* pipe then ends the write stream
RsRead(t) ==
  /\ tasks[t].rs = "open"
  /\ tasks[t].ws # "error"
  /\ UNCHANGED renames
  /\ LET chunk == ReadAt(inodes[tasks[t].rsFd], tasks[t].rpos)
         ended == [tasks EXCEPT ![t].rs = "ended"]
     IN IF chunk # <<>>
          THEN Step(fs, inodes,
                    [tasks EXCEPT ![t].buf = Append(@, chunk), ![t].rpos = @ + Len(chunk)])
        ELSE IF ResolveEvent = "end" /\ tasks[t].state = "pending"
          THEN Step(fs, inodes, Resolve(ended, t, tasks[t].finalDest))
        ELSE Step(fs, inodes, ended)

\* the write stream writes the chunk at the head of its buffer
WsWrite(t) ==
  /\ tasks[t].ws = "open"
  /\ tasks[t].buf # <<>>
  /\ UNCHANGED renames
  /\ Step(fs,
          [inodes EXCEPT ![tasks[t].wsFd] = WriteAt(@, tasks[t].wpos, Head(tasks[t].buf))],
          [tasks EXCEPT ![t].buf = Tail(@), ![t].wpos = @ + Len(Head(tasks[t].buf))])

\* ended and drained, the write stream emits 'finish' (line 419)
WsFinish(t) ==
  /\ tasks[t].ws = "open"
  /\ tasks[t].buf = <<>>
  /\ tasks[t].rs = "ended"
  /\ UNCHANGED renames
  /\ LET fin == [tasks EXCEPT ![t].ws = "finished"]
     IN IF ResolveEvent = "finish" /\ tasks[t].state = "pending"
          THEN Step(fs, inodes, Resolve(fin, t, tasks[t].finalDest))
          ELSE Step(fs, inodes, fin)

---------------------------------------------------------------------------
(* move (src/index.js:426-446) *)

\* line 430
MoveFinalDest(source, dest) ==
  IF ExtName(dest) # <<>> THEN dest ELSE Join(dest, BaseName(source))

\* line 440: only this error code takes the copy-then-remove path
TakesFallback(err) == err = "EXDEV"

\* lines 427-432: statSafe(source) answers; mkdirp(destDir) is requested
MoveStat(t) ==
  /\ Pending(t, "move", "stat")
  /\ UNCHANGED renames
  /\ IF ~StatOk(fs, tasks[t].source)
       THEN Step(fs, inodes, Reject(tasks, t, "Source not found"))
       ELSE Step(fs, inodes,
                 [tasks EXCEPT ![t].isDir = (KindAt(fs, tasks[t].source) = "dir"),
                               ![t].finalDest = MoveFinalDest(tasks[t].source, tasks[t].dest),
                               ![t].pc = "mkdirp"])

\* line 432 answers; line 436 exists(finalDest) is requested
MoveMkdirp(t) ==
  /\ Pending(t, "move", "mkdirp")
  /\ UNCHANGED renames
  /\ LET destDir == DirName(tasks[t].finalDest)
         err == MkdirpErr(fs, destDir)
     IN IF err # "" THEN Step(fs, inodes, Reject(tasks, t, err))
        ELSE Step(Mkdirp(fs, destDir), inodes, [tasks EXCEPT ![t].pc = "exists"])

\* line 436: exists(finalDest) answers
MoveExists(t) ==
  /\ Pending(t, "move", "exists")
  /\ UNCHANGED renames
  /\ IF AccessOk(fs, tasks[t].finalDest)
       THEN Step(fs, inodes, [tasks EXCEPT ![t].pc = "remove"])
       ELSE Step(fs, inodes, [tasks EXCEPT ![t].pc = "rename"])

\* line 436: remove(finalDest) answers; line 437 rename is requested
MoveRemove(t) ==
  /\ Pending(t, "move", "remove")
  /\ UNCHANGED renames
  /\ Step(Rm(fs, tasks[t].finalDest), inodes, [tasks EXCEPT ![t].pc = "rename"])

\* lines 437-442: rename answers; on the cross-device error copy is called
MoveRename(t) ==
  /\ Pending(t, "move", "rename")
  /\ renames' = renames + 1
  /\ LET s == tasks[t].source
         d == tasks[t].finalDest
         err == RenameErr(fs, s, d, xdev)
         ts == [tasks EXCEPT ![t].renameErr = err]
     IN IF err = "" THEN Step(Rename(fs, s, d), inodes, Resolve(ts, t, d))
        ELSE IF TakesFallback(err)
          THEN Step(fs, inodes,
                    Append([ts EXCEPT ![t].pc = "fbcopy"],
                           NewTask("copy", s, d, t, "stat")))
        ELSE Step(fs, inodes, Reject(ts, t, err))

\* a fallback that leaves the source in place
FallbackKeepsSource(f, source) == f

\* line 443: what is removed once the fallback copy has resolved
FallbackCleanup(f, source) == Rm(f, source)

\* lines 443-444: remove(source) answers
MoveRemoveSource(t) ==
  /\ Pending(t, "move", "fbremove")
  /\ UNCHANGED renames
  /\ Step(FallbackCleanup(fs, tasks[t].source), inodes,
          Resolve(tasks, t, tasks[t].finalDest))


---------------------------------------------------------------------------
(* list (src/index.js:327-360) and unix (:269) *)

SEP == "/"
BACKSLASH == "\\"

\* String.prototype.toLowerCase on the letters the model uses
LowerChar(c) ==
  CASE c = "T" -> "t"
    [] c = "X" -> "x"
    [] c = "L" -> "l"
    [] OTHER -> c

ToLowerCase(str) == [i \in 1..Len(str) |-> LowerChar(str[i])]

\* a path as the string path.join builds
RECURSIVE PathString(_)
PathString(p) ==
  IF p = <<>> THEN <<DOT>>
  ELSE IF Len(p) = 1 THEN p[1]
  ELSE PathString(DirName(p)) \o <<SEP>> \o BaseName(p)

\* a conversion that leaves the string as it is
Verbatim(filepath) == filepath

\* line 20, the earlier unix: filepath.split(/\\+/).join('/'), every run of
\* backslashes becomes one separator
RECURSIVE unixSplitJoin(_)
unixSplitJoin(filepath) ==
  IF filepath = <<>> THEN <<>>
  ELSE IF Head(filepath) # BACKSLASH THEN <<Head(filepath)>> \o unixSplitJoin(Tail(filepath))
  ELSE IF Len(filepath) > 1 /\ filepath[2] = BACKSLASH THEN unixSplitJoin(Tail(filepath))
  ELSE <<SEP>> \o unixSplitJoin(Tail(filepath))

\* line 269: filepath.replace(/\\/g, '/')
unix(filepath) == [i \in 1..Len(filepath) |-> IF filepath[i] = BACKSLASH THEN SEP ELSE filepath[i]]

\* e.replace(/^\.+/, '')
RECURSIVE StripDots(_)
StripDots(e) == IF e # <<>> /\ Head(e) = DOT THEN StripDots(Tail(e)) ELSE e

\* the allowed extensions taken as they are given
AllowedVerbatim(extensions) ==
  {<<DOT>> \o extensions.exts[i] : i \in 1..Len(extensions.exts)}

\* lines 346-348: the allowed extensions, each '.' + the option lowercased
Allowed(extensions) ==
  {<<DOT>> \o ToLowerCase(StripDots(extensions.exts[i])) : i \in 1..Len(extensions.exts)}

\* line 344: if (extensions): undefined and the empty string are falsy
Truthy(extensions) == extensions.given /\ (extensions.isArray \/ extensions.exts # <<<<>>>>)

\* lines 344-350
PassesFilter(o, name) ==
  ~Truthy(o.extensions) \/ ToLowerCase(ExtOfName(name)) \in Allowed(o.extensions)

\* line 352
Identifier(o, abs) == IF o.fullPath THEN unix(PathString(abs)) ELSE BaseName(abs)

\* the names of items that pass the filter, in the order given
RECURSIVE Emitted(_, _)
Emitted(o, items) ==
  IF items = <<>> THEN <<>>
  ELSE (IF PassesFilter(o, BaseName(Head(items)))
          THEN <<Identifier(o, Head(items))>> ELSE <<>>) \o Emitted(o, Tail(items))

\* the orders readdir may return a set of paths in
Orders(S) == {q \in [1..Cardinality(S) -> S] : \A x \in S : \E i \in DOMAIN q : q[i] = x}

SpawnItems(ts, t, items) ==
  ts \o [i \in 1..Len(items) |-> NewTask("item", items[i], NoPath, t, "stat")]

\* line 331: readdir(currentPath) answers.  Not recursive: every callback runs
\* to its end at once, in the order of items.  Recursive: every callback
\* requests statSafe(abs) (line 336), and walk awaits them all (line 355).
WalkReaddir(t) ==
  /\ tasks[t].op \in {"list", "item"}
  /\ tasks[t].pc = "readdir"
  /\ tasks[t].state = "pending"
  /\ UNCHANGED <<fs, inodes, fs0, inodes0, xdev, opts, renames>>
  /\ IF KindAt(fs, tasks[t].source) # "dir"
       THEN /\ tasks' = Reject(tasks, t, "ENOTDIR")
            /\ UNCHANGED entries
     ELSE IF opts.recursive
       THEN /\ UNCHANGED entries
            /\ LET items == SeqOf(Children(fs, tasks[t].source))
               IN IF items = <<>> THEN tasks' = Resolve(tasks, t, NoPath)
                  ELSE tasks' = SpawnItems([tasks EXCEPT ![t].pc = "await"], t, items)
     ELSE \E items \in Orders(Children(fs, tasks[t].source)) :
            /\ entries' = entries \o Emitted(opts, items)
            /\ tasks' = Resolve(tasks, t, NoPath)

\* a walk that never descends
WalksIntoNothing(f, abs) == FALSE

\* line 337: stats?.isDirectory(), false when the probe failed
WalksInto(f, abs) == StatOk(f, abs) /\ KindAt(f, abs) = "dir"

\* a probe that lets the error of fs.stat through to its caller
StatErr(f, abs) == IF StatOk(f, abs) THEN "" ELSE "ENOENT"

\* lines 292-296: what `await statSafe(abs)` throws: the catch turns every
\* error of fs.stat into the value null, so nothing
StatSafeErr(f, abs) == ""

\* lines 336-352: statSafe(abs) answers: a directory is walked, anything else
\* (a failed probe included) goes through the filter and is pushed
ItemStat(t) ==
  /\ Pending(t, "item", "stat")
  /\ UNCHANGED <<fs, inodes, fs0, inodes0, xdev, opts, renames>>
  /\ IF StatSafeErr(fs, tasks[t].source) # ""
       THEN /\ tasks' = Reject(tasks, t, StatSafeErr(fs, tasks[t].source))
            /\ UNCHANGED entries
     ELSE IF WalksInto(fs, tasks[t].source)
       THEN /\ tasks' = [tasks EXCEPT ![t].pc = "readdir"]
            /\ UNCHANGED entries
       ELSE /\ entries' = entries \o Emitted(opts, <<tasks[t].source>>)
            /\ tasks' = Resolve(tasks, t, NoPath)


\* a call of unix (line 269) and of the earlier unix (line 20) on one string
UnixCall(t) ==
  /\ Pending(t, "unix", "call")
  /\ UNCHANGED renames
  /\ Step(fs, inodes,
          Resolve(tasks, t, <<unix(tasks[t].source[1]), unixSplitJoin(tasks[t].source[1])>>))

---------------------------------------------------------------------------
(* The calls checked: initial trees and arguments *)

pA == <<nA>>
pO == <<nO>>
pN == <<nN>>
pM == <<nM>>
pAF == <<nA, nF>>
pAL == <<nA, nL>>
pAD == <<nA, nD>>
pOF == <<nO, nF>>
pNQ == <<nN, nQ>>

\* a/{f.t, d/{g.T}} beside o/{f.t, a/{q.x}}
Tree1 ==
  [dirs |-> {pA, pAD, pO, <<nO, nA>>},
   links |-> {},
   files |-> << <<pAF, <<1, 2, 3>> >>, << <<nA, nD, nG>>, <<>> >>,
                << pOF, <<9, 9, 9, 9>> >>, << <<nO, nA, nQ>>, <<8>> >> >>]

\* a/{f.t, L} beside o/{L}
Tree2 ==
  [dirs |-> {pA, pO},
   links |-> {},
   files |-> << <<pAF, <<1, 2, 3>> >>, <<pAL, <<5>> >>, << <<nO, nL>>, <<7, 7>> >> >>]

\* a/{f.t, g.T, L, d/{f.t, q.x -> nowhere}}
Tree3 ==
  [dirs |-> {pA, pAD},
   links |-> {<<nA, nD, nQ>>},
   files |-> << <<pAF, <<1>> >>, << <<nA, nG>>, <<2>> >>, <<pAL, <<3>> >>,
                << <<nA, nD, nF>>, <<4>> >> >>]

\* a/{f.t, d/{L}} beside o/{d/{L}}
Tree4 ==
  [dirs |-> {pA, pAD, pO, <<nO, nD>>},
   links |-> {},
   files |-> << <<pAF, <<1, 2, 3>> >>, << <<nA, nD, nL>>, <<4>> >>,
                << <<nO, nD, nL>>, <<6, 6>> >> >>]

FilePaths(T) == {T.files[i][1] : i \in 1..Len(T.files)}

TreeFs(T) ==
  [p \in T.dirs \cup T.links \cup FilePaths(T) |->
     IF p \in T.dirs THEN DirNode
     ELSE IF p \in T.links THEN LinkNode
     ELSE FileNode(CHOOSE i \in 1..Len(T.files) : T.files[i][1] = p)]

TreeInodes(T) == [i \in 1..Len(T.files) |-> T.files[i][2]]

Sources == {pAF, pAL, pA, pAD, pM}
Dests == {pO, pN, pNQ, pOF, pA, pAF}
\* move is also called with a destination inside its source
MoveDests == Dests \cup {pAD}

NoExtensions == [given |-> FALSE, isArray |-> FALSE, exts |-> <<>>]
StringExt(e) == [given |-> TRUE, isArray |-> FALSE, exts |-> <<e>>]
ArrayExt(es) == [given |-> TRUE, isArray |-> TRUE, exts |-> es]

ExtensionOptions ==
  {NoExtensions, StringExt(<<"t">>), StringExt(<<"T">>), StringExt(<<DOT, "t">>),
   StringExt(<<>>), ArrayExt(<<>>), ArrayExt(<< <<"t">> >>), ArrayExt(<< <<"t">>, <<"x">> >>)}

DefaultOpts == [extensions |-> NoExtensions, recursive |-> FALSE, fullPath |-> FALSE]

ListOptions ==
  [extensions : ExtensionOptions, recursive : BOOLEAN, fullPath : BOOLEAN]

\* rename reports the cross-device error only between two devices; a device
\* mounted inside the source tree is not modelled
MayCrossDevice(source, dest) == ~IsPrefix(source, MoveFinalDest(source, dest))

Start(T, task, x, o) ==
  /\ fs = TreeFs(T)
  /\ inodes = TreeInodes(T)
  /\ fs0 = fs
  /\ inodes0 = inodes
  /\ tasks = <<task>>
  /\ xdev = x
  /\ renames = 0
  /\ opts = o
  /\ entries = <<>>

InitCopy ==
  \E T \in {Tree1, Tree2, Tree4}, s \in Sources, d \in Dests :
    Start(T, NewTask("copy", s, d, 0, "stat"), FALSE, DefaultOpts)

InitMove ==
  \E T \in {Tree1, Tree2, Tree4}, s \in Sources, d \in MoveDests, x \in BOOLEAN :
    /\ x => MayCrossDevice(s, d)
    /\ Start(T, NewTask("move", s, d, 0, "stat"), x, DefaultOpts)

InitList ==
  \E T \in {Tree2, Tree3}, s \in {pA, pAF, pM}, o \in ListOptions :
    Start(T, NewTask("list", s, NoPath, 0, "readdir"), FALSE, o)

\* the strings handed to unix
Strings == UNION {[1..n -> {"a", SEP, BACKSLASH}] : n \in 0..MaxLen}

InitUnix ==
  \E str \in Strings :
    Start(Tree2, NewTask("unix", <<str>>, NoPath, 0, "call"), FALSE, DefaultOpts)

Init == InitCopy \/ InitMove \/ InitList \/ InitUnix

Next ==
  \/ \E t \in DOMAIN tasks : CopyStat(t)
  \/ \E t \in DOMAIN tasks : CopyMkdirp(t)
  \/ \E t \in DOMAIN tasks : CopyMkdirpDest(t)
  \/ \E t \in DOMAIN tasks : CopyReaddir(t)
  \/ \E t \in DOMAIN tasks : CopyExists(t)
  \/ \E t \in DOMAIN tasks : CopyRemove(t)
  \/ \E t \in DOMAIN tasks : RsOpen(t)
  \/ \E t \in DOMAIN tasks : WsOpen(t)
  \/ \E t \in DOMAIN tasks : RsRead(t)
  \/ \E t \in DOMAIN tasks : WsWrite(t)
  \/ \E t \in DOMAIN tasks : WsFinish(t)
  \/ \E t \in DOMAIN tasks : MoveStat(t)
  \/ \E t \in DOMAIN tasks : MoveMkdirp(t)
  \/ \E t \in DOMAIN tasks : MoveExists(t)
  \/ \E t \in DOMAIN tasks : MoveRemove(t)
  \/ \E t \in DOMAIN tasks : MoveRename(t)
  \/ \E t \in DOMAIN tasks : MoveRemoveSource(t)
  \/ \E t \in DOMAIN tasks : WalkReaddir(t)
  \/ \E t \in DOMAIN tasks : ItemStat(t)
  \/ \E t \in DOMAIN tasks : UnixCall(t)

Spec == Init /\ [][Next]_vars

\* Two calls of copy in flight at once
StartPair(T, s1, s2, d) ==
  /\ fs = TreeFs(T)
  /\ inodes = TreeInodes(T)
  /\ fs0 = fs
  /\ inodes0 = inodes
  /\ tasks = <<NewTask("copy", s1, d, 0, "stat"), NewTask("copy", s2, d, 0, "stat")>>
  /\ xdev = FALSE
  /\ renames = 0
  /\ opts = DefaultOpts
  /\ entries = <<>>

\* two files as sources and one final destination that is neither source
InitPair ==
  \E T \in {Tree1, Tree2} : \E s1 \in FilePaths(T), s2 \in FilePaths(T), d \in Dests :
    /\ s1 # s2
    /\ CopyFinalDest(s1, d) = CopyFinalDest(s2, d)
    /\ CopyFinalDest(s1, d) \notin {s1, s2}
    /\ StartPair(T, s1, s2, d)

\* the steps of a copy of a file
NextPair ==
  \/ \E t \in DOMAIN tasks : CopyStat(t)
  \/ \E t \in DOMAIN tasks : CopyMkdirp(t)
  \/ \E t \in DOMAIN tasks : CopyExists(t)
  \/ \E t \in DOMAIN tasks : CopyRemove(t)
  \/ \E t \in DOMAIN tasks : RsOpen(t)
  \/ \E t \in DOMAIN tasks : WsOpen(t)
  \/ \E t \in DOMAIN tasks : RsRead(t)
  \/ \E t \in DOMAIN tasks : WsWrite(t)
  \/ \E t \in DOMAIN tasks : WsFinish(t)

SpecPair == InitPair /\ [][NextPair]_vars


---------------------------------------------------------------------------
(* Vocabulary of the properties *)

\* the call under check
Top == tasks[1]

\* the paths below p, relative to p
Below(f, p) == {SubSeq(q, Len(p) + 1, Len(q)) : q \in {r \in DOMAIN f : IsPrefix(p, r)}}

SameNode(f1, ind1, p1, f2, ind2, p2) ==
  /\ KindAt(f1, p1) = KindAt(f2, p2)
  /\ KindAt(f1, p1) = "file" => Content(f1, ind1, p1) = Content(f2, ind2, p2)

\* the tree at p1 in one filesystem is the tree at p2 in the other
SameTree(f1, ind1, p1, f2, ind2, p2) ==
  \A r \in Below(f1, p1) \cup Below(f2, p2) \cup {<<>>} :
    SameNode(f1, ind1, p1 \o r, f2, ind2, p2 \o r)

FileCopies == {t \in DOMAIN tasks : tasks[t].op = "copy" /\ KindAt(fs0, tasks[t].source) = "file"}

---------------------------------------------------------------------------
(* Properties *)

\* C1: when a copy of a file resolves, the path it returns names a file that
\* holds exactly the content the source had, and the write stream has
\* finished: nothing read is still waiting to be written.
C1_CopyPreservesContent ==
  \A t \in FileCopies :
    (tasks[t].par = 0 /\ tasks[t].state = "resolved") =>
      /\ KindAt(fs, tasks[t].val) = "file"
      /\ Content(fs, inodes, tasks[t].val) = Content(fs0, inodes0, tasks[t].source)
      /\ tasks[t].ws = "finished"
      /\ tasks[t].buf = <<>>

\* C1 on the calls whose final destination is not the source itself
C1_UnlessOntoItself ==
  \A t \in FileCopies :
    (/\ tasks[t].par = 0
     /\ tasks[t].state = "resolved"
     /\ CopyFinalDest(tasks[t].source, tasks[t].dest) # tasks[t].source) =>
      /\ KindAt(fs, tasks[t].val) = "file"
      /\ Content(fs, inodes, tasks[t].val) = Content(fs0, inodes0, tasks[t].source)
      /\ tasks[t].ws = "finished"
      /\ tasks[t].buf = <<>>

\* neither path is the other or lies below it
Apart(p, q) == ~IsPrefix(p, q) /\ ~IsPrefix(q, p)

\* C2: when a copy of a directory resolves, the destination is a directory
\* and every file and directory below the source is, at the same relative
\* path below the destination, a file with the same content or a directory.
\* Stated for a destination apart from the source, where no child copy is
\* a copy onto itself.
C2_DirectoryCopyMirrorsTree ==
  (/\ Top.op = "copy"
   /\ KindAt(fs0, Top.source) = "dir"
   /\ Apart(Top.source, Top.dest)
   /\ Top.state = "resolved") =>
    /\ KindAt(fs, Top.dest) = "dir"
    /\ \A r \in Below(fs0, Top.source) :
         SameNode(fs, inodes, Top.dest \o r, fs0, inodes0, Top.source \o r)

\* C2 on the trees in which every file name has an extension
C2_WhenEveryFileHasAnExtension ==
  (/\ Top.op = "copy"
   /\ KindAt(fs0, Top.source) = "dir"
   /\ Apart(Top.source, Top.dest)
   /\ Top.state = "resolved"
   /\ \A r \in Below(fs0, Top.source) :
        KindAt(fs0, Top.source \o r) = "file" => ExtName(r) # <<>>) =>
    /\ KindAt(fs, Top.dest) = "dir"
    /\ \A r \in Below(fs0, Top.source) :
         SameNode(fs, inodes, Top.dest \o r, fs0, inodes0, Top.source \o r)

\* the path the basename-or-literal rule gives
RuleDest(source, dest) ==
  IF ExtName(dest) # <<>> THEN dest ELSE Join(dest, BaseName(source))

\* C3: a resolved copy or move of a file returns the destination itself when
\* it has an extension and the destination joined with the source's basename
\* when it has none, and the returned path names a file with the content the
\* source had.  Stated for a final destination that is not the source.
C3_FileLandsAtReturnedPath ==
  (/\ Top.op \in {"copy", "move"}
   /\ KindAt(fs0, Top.source) = "file"
   /\ RuleDest(Top.source, Top.dest) # Top.source
   /\ Top.state = "resolved") =>
    /\ Top.val = RuleDest(Top.source, Top.dest)
    /\ KindAt(fs, Top.val) = "file"
    /\ Content(fs, inodes, Top.val) = Content(fs0, inodes0, Top.source)

\* the path copy returns (lines 403 and 419)
CopyReturns(f, source, dest) ==
  IF KindAt(f, source) = "dir" THEN dest ELSE CopyFinalDest(source, dest)

\* C4: for a file or a directory source and any destination, the path a
\* resolved copy populates and returns is the path move computes from the
\* same arguments, and the path a resolved move returns is the one copy
\* returns for them.
C4_CopyAndMoveResolveAlike ==
  (Top.op \in {"copy", "move"} /\ Top.state = "resolved") =>
    /\ Top.val = MoveFinalDest(Top.source, Top.dest)
    /\ Top.val = CopyReturns(fs0, Top.source, Top.dest)

\* C5: when a move resolves, by rename or by copy and remove, the source path
\* no longer exists and the returned path does.
C5_MoveRemovesSource ==
  (Top.op = "move" /\ Top.state = "resolved") =>
    /\ ~AccessOk(fs, Top.source)
    /\ AccessOk(fs, Top.val)
    /\ Top.val = Top.finalDest

\* a move across devices has resolved through the fallback
C5_Witness ==
  /\ Top.op = "move"
  /\ Top.state = "resolved"
  /\ Top.renameErr = "EXDEV"
  /\ KindAt(fs0, Top.source) = "dir"

\* C6: move calls copy only after rename failed with the cross-device error;
\* after any other rename failure move is rejected with that error, no copy
\* has been called, the source still exists, and at most one rename is
\* requested in all.
C6_FallbackOnlyAcrossDevices ==
  Top.op = "move" =>
    /\ renames <= 1
    /\ Len(tasks) > 1 => Top.renameErr = "EXDEV"
    /\ Top.renameErr \notin {"", "EXDEV"} =>
         /\ Top.state = "rejected"
         /\ Top.err = Top.renameErr
         /\ Len(tasks) = 1
         /\ StatOk(fs, Top.source)

\* C6 without the state of the source: what move does on a rename failure
C6_NoFallbackOnOtherErrors ==
  Top.op = "move" =>
    /\ renames <= 1
    /\ Len(tasks) > 1 => Top.renameErr = "EXDEV"
    /\ Top.renameErr \notin {"", "EXDEV"} =>
         /\ Top.state = "rejected"
         /\ Top.err = Top.renameErr
         /\ Len(tasks) = 1

\* C7: when a node exists at the final destination before a copy of a file or
\* a move, the call does not fail and, once it has resolved, the final
\* destination is exactly what the source was.
C7_OverwriteReplacesDestination ==
  (/\ Top.op \in {"copy", "move"}
   /\ Top.op = "copy" => KindAt(fs0, Top.source) = "file"
   /\ StatOk(fs0, Top.source)
   /\ AccessOk(fs0, RuleDest(Top.source, Top.dest))) =>
    /\ Top.state # "rejected"
    /\ Top.state = "resolved" =>
         SameTree(fs, inodes, RuleDest(Top.source, Top.dest), fs0, inodes0, Top.source)

\* C8: a copy or a move of a source that does not exist changes nothing in the
\* filesystem and, once statSafe has answered, is rejected as source not found.
C8_MissingSourceChangesNothing ==
  (Top.op \in {"copy", "move"} /\ Top.source \notin DOMAIN fs0) =>
    /\ fs = fs0
    /\ inodes = inodes0
    /\ Len(tasks) = 1
    /\ Top.state # "resolved"
    /\ Top.pc # "stat" => (Top.state = "rejected" /\ Top.err = "Source not found")

\* a move of a missing source to an existing directory has been rejected
C8_Witness ==
  /\ Top.op = "move"
  /\ Top.source \notin DOMAIN fs0
  /\ Top.state = "rejected"
  /\ KindAt(fs0, Top.dest) = "dir"


Range(q) == {q[i] : i \in DOMAIN q}
Count(q, x) == Cardinality({i \in DOMAIN q : q[i] = x})

\* the paths below the listed directory, by kind
Under(kind) ==
  {p \in DOMAIN fs0 : IsPrefix(Top.source, p) /\ p # Top.source /\ fs0[p].kind = kind}

\* the leaf files (or dangling links) that pass the filter and are listed as x
Listed(kind, x) ==
  {p \in Under(kind) : PassesFilter(opts, BaseName(p)) /\ Identifier(opts, p) = x}

Identifiers == Range(entries) \cup {Identifier(opts, p) : p \in DOMAIN fs0}

\* C9: when a recursive list has resolved, every callback and every walk it
\* started has resolved, each leaf file below the root that passes the filter
\* has exactly one entry, and there is no entry for a directory or for a file
\* the filter rejects.  (An entry whose probe failed is C11's subject: the
\* count allows it and does not require it.)
C9_RecursiveListIsTheLeafFiles ==
  (Top.op = "list" /\ opts.recursive /\ Top.state = "resolved") =>
    /\ \A t \in DOMAIN tasks : tasks[t].state = "resolved"
    /\ \A x \in Identifiers :
         /\ Count(entries, x) >= Cardinality(Listed("file", x))
         /\ Count(entries, x) <= Cardinality(Listed("file", x)) + Cardinality(Listed("link", x))

\* a filtered recursive list of a tree with a subdirectory has resolved with
\* two files of the same name
C9_Witness ==
  /\ Top.op = "list"
  /\ opts.recursive
  /\ Truthy(opts.extensions)
  /\ Top.state = "resolved"
  /\ Under("dir") # {}
  /\ \E x \in Range(entries) : Count(entries, x) = 2

\* the extension of a name is one of the given extensions, as given
InGivenSet(name, extensions) ==
  \E i \in 1..Len(extensions.exts) : ExtOfName(name) = <<DOT>> \o extensions.exts[i]

\* C10 as stated: a list that is not recursive returns, as a set, the direct
\* children whose extension is in the given set (a string standing for the
\* array of that string), and every direct child when no option is given.
\* Stated for given extensions that are not the empty string.
C10_ListFiltersByExtension ==
  (/\ Top.op = "list"
   /\ ~opts.recursive
   /\ Top.state = "resolved"
   /\ \A i \in 1..Len(opts.extensions.exts) : opts.extensions.exts[i] # <<>>) =>
    Range(entries) =
      {Identifier(opts, c) :
         c \in {d \in Children(fs0, Top.source) :
                  ~opts.extensions.given \/ InGivenSet(BaseName(d), opts.extensions)}}

\* the extension of a name is one of the given extensions when case and the
\* leading dots of the given extension are ignored
InGivenSetIgnoringCase(name, extensions) ==
  \E i \in 1..Len(extensions.exts) :
    ToLowerCase(ExtOfName(name)) = <<DOT>> \o ToLowerCase(StripDots(extensions.exts[i]))

\* C10 amended: as C10, the extension being compared without regard to case
\* or to leading dots of the given extensions, and the empty string counting
\* as no option.
C10_ListFiltersIgnoringCase ==
  (Top.op = "list" /\ ~opts.recursive /\ Top.state = "resolved") =>
    /\ Range(entries) =
         {Identifier(opts, c) :
            c \in {d \in Children(fs0, Top.source) :
                     \/ ~opts.extensions.given
                     \/ opts.extensions = StringExt(<<>>)
                     \/ InGivenSetIgnoringCase(BaseName(d), opts.extensions)}}
    /\ Len(entries) = Cardinality(Range(entries))
    /\ Len(tasks) = 1

\* a list filtered by two extensions has returned two of four children
C10_Witness ==
  /\ Top.op = "list"
  /\ ~opts.recursive
  /\ Top.state = "resolved"
  /\ opts.extensions.isArray
  /\ Len(opts.extensions.exts) = 2
  /\ Len(entries) = 2
  /\ Cardinality(Children(fs0, Top.source)) = 4

\* the callbacks of a recursive list whose stat probe failed and has answered
FailedProbes ==
  {t \in DOMAIN tasks :
     /\ tasks[t].op = "item"
     /\ ~StatOk(fs0, tasks[t].source)
     /\ tasks[t].pc # "stat"}

\* C11 as stated: in a recursive list, once the stat probe of an entry has
\* failed, the list call fails: it is rejected and never resolves.
C11_StatFailureFailsTheList ==
  (Top.op = "list" /\ opts.recursive /\ FailedProbes # {}) =>
    Top.state = "rejected"

\* C11 amended: in a recursive list the failure of an entry's stat probe is
\* swallowed by statSafe.  The callback resolves, the entry is treated as a
\* file: it is pushed once when it passes the extension filter and left out
\* otherwise, and the list call is not rejected on its account.
C11_StatFailureIsSwallowed ==
  (Top.op = "list" /\ opts.recursive) =>
    /\ \A t \in FailedProbes :
         /\ tasks[t].state = "resolved"
         /\ Count(entries, Identifier(opts, tasks[t].source)) >=
              (IF PassesFilter(opts, BaseName(tasks[t].source)) THEN 1 ELSE 0)
    /\ FailedProbes # {} => Top.state # "rejected"
    /\ Top.state = "resolved" =>
         \A x \in Identifiers :
           Count(entries, x) = Cardinality(Listed("file", x)) + Cardinality(Listed("link", x))

\* a recursive list over a tree with a dangling link has resolved and the
\* link is among its entries
C11_Witness ==
  /\ Top.op = "list"
  /\ opts.recursive
  /\ Top.state = "resolved"
  /\ FailedProbes # {}
  /\ \E t \in FailedProbes : Identifier(opts, tasks[t].source) \in Range(entries)

HasBackslash(str) == \E i \in 1..Len(str) : str[i] = BACKSLASH

\* C12: the result of unix is a string that unix leaves as it is, and holds
\* no backslash; so for the unix of line 269 and for the earlier one.
C12_UnixIsIdempotent ==
  (Top.op = "unix" /\ Top.state = "resolved") =>
    /\ Top.val[1] = unix(Top.source[1])
    /\ unix(Top.val[1]) = Top.val[1]
    /\ ~HasBackslash(Top.val[1])
    /\ Top.val[2] = unixSplitJoin(Top.source[1])
    /\ unixSplitJoin(Top.val[2]) = Top.val[2]
    /\ ~HasBackslash(Top.val[2])

\* unix has converted a string with a run of two backslashes
C12_Witness ==
  /\ Top.op = "unix"
  /\ Top.state = "resolved"
  /\ \E i \in 1..(Len(Top.source[1]) - 1) :
       Top.source[1][i] = BACKSLASH /\ Top.source[1][i + 1] = BACKSLASH
  /\ Top.val[1] # Top.source[1]
  /\ Top.val[1] # Top.val[2]

DirCopy == Top.op = "copy" /\ KindAt(fs0, Top.source) = "dir"

\* the copies started below the call under check, at every depth
Descendants == {t \in DOMAIN tasks : tasks[t].par # 0}

C13_InEveryState ==
  DirCopy =>
    /\ (\E t \in Descendants : tasks[t].state = "rejected") =>
         /\ Top.state = "rejected"
         /\ \E c \in ChildrenOf(tasks, 1) :
              tasks[c].state = "rejected" /\ tasks[c].err = Top.err
    /\ Top.state = "resolved" =>
         \A t \in Descendants :
           /\ tasks[t].state = "resolved"
           /\ tasks[t].rs \in {"none", "ended"}
           /\ tasks[t].ws \in {"none", "finished"}
    /\ Apart(Top.source, Top.dest) =>
         \A t \in FileCopies :
           tasks[t].state = "resolved" =>
             /\ KindAt(fs, tasks[t].val) = "file"
             /\ Content(fs, inodes, tasks[t].val) = Content(fs0, inodes0, tasks[t].source)

C13_InEveryStep ==
  (DirCopy /\ Top.state = "rejected") => tasks'[1] = tasks[1]

\* C13: a copy of a directory is rejected as soon as a copy below it, at any
\* depth, is rejected, with the error of that first failure, which later
\* failures do not replace; what the other copies wrote stays where they
\* wrote it; and the copy resolves only when every copy below it has resolved
\* and closed its streams.
C13_DirectoryCopyFailsWithItsChildren ==
  [](C13_InEveryState) /\ [][C13_InEveryStep]_vars

\* a copy of a directory has been rejected by a failure two levels down,
\* after a copy one level down had written its file
C13_Witness ==
  /\ DirCopy
  /\ Top.state = "rejected"
  /\ \E t \in Descendants :
       tasks[t].par # 1 /\ tasks[t].state = "rejected" /\ tasks[t].err = Top.err
  /\ \E t \in FileCopies :
       tasks[t].par = 1 /\ tasks[t].state = "resolved" /\ KindAt(fs, tasks[t].val) = "file"

\* the move under check has taken the cross-device fallback
InFallback == Top.op = "move" /\ Top.renameErr = "EXDEV"

\* the copy the fallback started (line 442)
FallbackCopy == CHOOSE t \in DOMAIN tasks : tasks[t].par = 1 /\ tasks[1].op = "move"

SourceIntact == SameTree(fs, inodes, Top.source, fs0, inodes0, Top.source)

\* C14: in the cross-device fallback the source tree is as it was for as long
\* as the copy to the final destination has not resolved; when that copy is
\* rejected the move is rejected with the same error and the source tree is
\* and stays as it was.
C14_SourceRemovedOnlyAfterCopy ==
  InFallback =>
    /\ Len(tasks) >= 2
    /\ tasks[FallbackCopy].state # "resolved" => SourceIntact
    /\ Top.pc = "fbcopy" => SourceIntact
    /\ tasks[FallbackCopy].state = "rejected" =>
         /\ Top.state = "rejected"
         /\ Top.err = tasks[FallbackCopy].err
    /\ Top.state = "rejected" => SourceIntact
    /\ ~SourceIntact => KindAt(fs, Top.source) = "missing"

\* the fallback copy of a directory has failed after a part of it was written
C14_Witness ==
  /\ InFallback
  /\ KindAt(fs0, Top.source) = "dir"
  /\ Top.state = "rejected"
  /\ tasks[FallbackCopy].state = "rejected"
  /\ \E t \in FileCopies : tasks[t].state = "resolved"

\* the source has been removed after the fallback copy resolved
C14_Removed ==
  /\ InFallback
  /\ tasks[FallbackCopy].state = "resolved"
  /\ KindAt(fs, Top.source) = "missing"

\* C15: when two copies of two files to one final destination have both
\* resolved, the destination is a file that holds the whole content of one of
\* the two sources.
C15_ConcurrentCopiesLeaveOneSource ==
  (/\ Len(tasks) = 2
   /\ tasks[1].par = 0 /\ tasks[2].par = 0
   /\ tasks[1].state = "resolved" /\ tasks[2].state = "resolved") =>
    /\ KindAt(fs, tasks[1].val) = "file"
    /\ Content(fs, inodes, tasks[1].val) \in
         {Content(fs0, inodes0, tasks[1].source), Content(fs0, inodes0, tasks[2].source)}

\* the write stream of a copy has opened its file
WriteStarted(t) == tasks[t].ws \in {"open", "finished"}

\* C16: in a copy of a directory, at every depth, the destination of a
\* directory copy is a directory from the moment its child copies exist, and
\* a child's write stream is open only on a file whose parent directory
\* exists; no child fails for want of a directory.
C16_ParentDirectoryBeforeChildren ==
  DirCopy =>
    /\ \A t \in Descendants : KindAt(fs, tasks[tasks[t].par].dest) = "dir"
    /\ \A t \in Descendants :
         WriteStarted(t) => KindAt(fs, DirName(tasks[t].finalDest)) = "dir"
    /\ Apart(Top.source, Top.dest) =>
         \A t \in Descendants : tasks[t].err # "ENOENT"

\* two levels down a write has started while a copy one level down has not
\* yet looked at its source; the destination was given with an extension
C16_Witness ==
  /\ DirCopy
  /\ ExtName(Top.dest) # <<>>
  /\ \E t \in Descendants : tasks[t].par # 1 /\ tasks[t].ws = "open"
  /\ \E t \in Descendants : tasks[t].par = 1 /\ tasks[t].pc = "stat"

\* C17: when a copy of an existing source has resolved or has been rejected,
\* the node at the source, with everything below it, has the kind and the
\* content it had when copy was called.
C17_CopyLeavesSourceAsItWas ==
  (Top.op = "copy" /\ StatOk(fs0, Top.source) /\ Top.state # "pending") =>
    SameTree(fs, inodes, Top.source, fs0, inodes0, Top.source)

\* C17 on the calls whose destination is neither the source, nor above it,
\* nor below it
C17_UnlessOntoItself ==
  (/\ Top.op = "copy"
   /\ StatOk(fs0, Top.source)
   /\ Apart(Top.source, Top.dest)) =>
    SameTree(fs, inodes, Top.source, fs0, inodes0, Top.source)

\* the move has resolved with the final destination, the source is missing
\* and the returned path holds what the source held
MovedWhole ==
  /\ Top.val = MoveFinalDest(Top.source, Top.dest)
  /\ KindAt(fs, Top.source) = "missing"
  /\ SameTree(fs, inodes, Top.val, fs0, inodes0, Top.source)

\* C18: a move that has resolved through the cross-device fallback has
\* returned the final destination, the source is missing, and the node at the
\* returned path has the kind and the content the source had, as after a
\* rename.
C18_FallbackEndsAsRename ==
  (InFallback /\ Top.state = "resolved") => MovedWhole

\* the same of a move whose rename succeeded
C18_RenameMovesWhole ==
  (Top.op = "move" /\ Top.state = "resolved" /\ Top.renameErr = "") => MovedWhole

====
